---- MODULE Spec2Model ----
(***************************************************************************)
(* Model of Stabilization.cpp: a probabilistic fault containment algorithm *)
(* on a line of nodes.  Each node holds a binary primary value and an      *)
(* integer secondary value; a randomly selected node is updated from the   *)
(* values of its left and right neighbours until all primaries are equal.  *)
(***************************************************************************)
EXTENDS Integers, FiniteSets, Sequences

VARIABLES
    SYSTEM_SIZE,  \* System::SYSTEM_SIZE
    member,       \* System::member, the array of nodes, indexed 0..SYSTEM_SIZE-1
    node,         \* System::node, the cursor, as an index into member
    faults,       \* main: the number of simulated faults read from the input
    i,            \* main: the counter of the fault loop
    pc,           \* main: where the program is
    rule,         \* the branch the last activation of the rule took
    promoted,     \* history: the promoted node that is followed, or NULL
    activated     \* history: the activations of its left and right neighbour since

vars == <<SYSTEM_SIZE, member, node, faults, i, pc, rule, promoted, activated>>

----------------------------------------------------------------------------
(* Bounds of the model *)

MaxSize == 4         \* largest system size entered

MaxFaults == 2       \* largest number of simulated faults entered

MaxSecondary == 55   \* activations that would raise a secondary above this are cut off

----------------------------------------------------------------------------
(* Program constants *)

M == 20

NULL == -1

\* The sizes the input may hold: a negative one, zero, and 1..MaxSize.
Sizes == (0 - 1) .. MaxSize

\* What a read through a pointer outside the array may find.
Garbage == { [primary |-> p, secondary |-> s, left |-> NULL, right |-> NULL] :
               p \in {0, 1}, s \in {0, MaxSecondary} }

----------------------------------------------------------------------------
(* class Node *)

Node == [primary |-> 0, secondary |-> 5, left |-> NULL, right |-> NULL]

\* Equal comparing the secondary values as well.
Equal_Secondary(n, other) ==
    IF n.primary = other.primary /\ n.secondary = other.secondary THEN TRUE ELSE FALSE

Equal(n, other) == IF n.primary = other.primary THEN TRUE ELSE FALSE

\* Update that also counts the flip in the secondary value.
Update_TouchSecondary(n) ==
    IF n.primary = 0 THEN [n EXCEPT !.primary = 1, !.secondary = n.secondary + 1]
                     ELSE [n EXCEPT !.primary = 0, !.secondary = n.secondary + 1]

Update(n) == IF n.primary = 0 THEN [n EXCEPT !.primary = 1]
                              ELSE [n EXCEPT !.primary = 0]

----------------------------------------------------------------------------
(* class System *)

\* The constructor without its branch for the last node.
System_NoLast(size) ==
    [k \in 0 .. (size - 1) |->
        IF k = 0 THEN [Node EXCEPT !.right = k + 1]
        ELSE [Node EXCEPT !.left = k - 1, !.right = k + 1]]

\* The constructor: the array and the neighbour pointers of each node.
System(size) ==
    [k \in 0 .. (size - 1) |->
        IF k = 0 THEN [Node EXCEPT !.right = k + 1]
        ELSE IF k = size - 1 THEN [Node EXCEPT !.left = k - 1]
        ELSE [Node EXCEPT !.left = k - 1, !.right = k + 1]]

\* The indices rand() % SYSTEM_SIZE can yield.
SelectNode(size) == 0 .. (size - 1)

\* The nodes a read through pointer p can yield: the node itself when p is
\* inside the array, anything when it is not.  A NULL pointer is never read.
Deref(m, p) == IF p \in DOMAIN m THEN {m[p]}
               ELSE IF p = NULL THEN {Node}
               ELSE Garbage

RECURSIVE LegalFrom(_, _, _)
LegalFrom(m, size, k) ==
    IF k < size
    THEN IF ~Equal(m[0], m[k]) THEN FALSE ELSE LegalFrom(m, size, k + 1)
    ELSE TRUE

\* LegalConfig with its loop started at index 2.
LegalConfig_FromTwo(m, size) == LegalFrom(m, size, 2)

LegalConfig(m, size) == LegalFrom(m, size, 1)

\* CheckUnequal without the Update of a node that has one neighbour.
CheckUnequal_NoEndpointUpdate(n, L, R) ==
    IF n.left # NULL /\ n.right # NULL
    THEN IF n.primary # L.primary /\ n.primary # R.primary
         THEN [n |-> Update(n), ret |-> TRUE, rule |-> "alldisagree"]
         ELSE IF n.primary = L.primary /\ n.primary = R.primary
         THEN [n |-> n, ret |-> TRUE, rule |-> "allagree"]
         ELSE [n |-> n, ret |-> FALSE, rule |-> "mixed"]
    ELSE IF n.left = NULL
    THEN IF n.primary # R.primary
         THEN [n |-> n, ret |-> TRUE, rule |-> "alldisagree"]
         ELSE [n |-> n, ret |-> TRUE, rule |-> "allagree"]
    ELSE IF n.primary # L.primary
         THEN [n |-> n, ret |-> TRUE, rule |-> "alldisagree"]
         ELSE [n |-> n, ret |-> TRUE, rule |-> "allagree"]

\* CheckUnequal sending a node that differs from its only neighbour on to
\* the other rules.
CheckUnequal_EndpointMixed(n, L, R) ==
    IF n.left # NULL /\ n.right # NULL
    THEN IF n.primary # L.primary /\ n.primary # R.primary
         THEN [n |-> Update(n), ret |-> TRUE, rule |-> "alldisagree"]
         ELSE IF n.primary = L.primary /\ n.primary = R.primary
         THEN [n |-> n, ret |-> TRUE, rule |-> "allagree"]
         ELSE [n |-> n, ret |-> FALSE, rule |-> "mixed"]
    ELSE IF n.left = NULL
    THEN IF n.primary = R.primary
         THEN [n |-> n, ret |-> TRUE, rule |-> "allagree"]
         ELSE [n |-> n, ret |-> FALSE, rule |-> "mixed"]
    ELSE IF n.primary = L.primary
         THEN [n |-> n, ret |-> TRUE, rule |-> "allagree"]
         ELSE [n |-> n, ret |-> FALSE, rule |-> "mixed"]

\* CheckUnequal with an Update in the all-agree branch of a node that has
\* two neighbours.
CheckUnequal_AgreeFlips(n, L, R) ==
    IF n.left # NULL /\ n.right # NULL
    THEN IF n.primary # L.primary /\ n.primary # R.primary
         THEN [n |-> Update(n), ret |-> TRUE, rule |-> "alldisagree"]
         ELSE IF n.primary = L.primary /\ n.primary = R.primary
         THEN [n |-> Update(n), ret |-> TRUE, rule |-> "allagree"]
         ELSE [n |-> n, ret |-> FALSE, rule |-> "mixed"]
    ELSE IF n.left = NULL
    THEN IF n.primary # R.primary
         THEN [n |-> Update(n), ret |-> TRUE, rule |-> "alldisagree"]
         ELSE [n |-> n, ret |-> TRUE, rule |-> "allagree"]
    ELSE IF n.primary # L.primary
         THEN [n |-> Update(n), ret |-> TRUE, rule |-> "alldisagree"]
         ELSE [n |-> n, ret |-> TRUE, rule |-> "allagree"]

\* CheckUnequal returning true in the mixed branch, so that the other rules
\* are never checked.
CheckUnequal_MixedReturnsTrue(n, L, R) ==
    IF n.left # NULL /\ n.right # NULL
    THEN IF n.primary # L.primary /\ n.primary # R.primary
         THEN [n |-> Update(n), ret |-> TRUE, rule |-> "alldisagree"]
         ELSE IF n.primary = L.primary /\ n.primary = R.primary
         THEN [n |-> n, ret |-> TRUE, rule |-> "allagree"]
         ELSE [n |-> n, ret |-> TRUE, rule |-> "mixed"]
    ELSE IF n.left = NULL
    THEN IF n.primary # R.primary
         THEN [n |-> Update(n), ret |-> TRUE, rule |-> "alldisagree"]
         ELSE [n |-> n, ret |-> TRUE, rule |-> "allagree"]
    ELSE IF n.primary # L.primary
         THEN [n |-> Update(n), ret |-> TRUE, rule |-> "alldisagree"]
         ELSE [n |-> n, ret |-> TRUE, rule |-> "allagree"]

\* CheckUnequal on node n whose neighbours read as L and R: the node after
\* the call, the value returned and the branch taken.
CheckUnequal(n, L, R) ==
    IF n.left # NULL /\ n.right # NULL
    THEN IF n.primary # L.primary /\ n.primary # R.primary
         THEN [n |-> Update(n), ret |-> TRUE, rule |-> "alldisagree"]
         ELSE IF n.primary = L.primary /\ n.primary = R.primary
         THEN [n |-> n, ret |-> TRUE, rule |-> "allagree"]
         ELSE [n |-> n, ret |-> FALSE, rule |-> "mixed"]
    ELSE IF n.left = NULL
    THEN IF n.primary # R.primary
         THEN [n |-> Update(n), ret |-> TRUE, rule |-> "alldisagree"]
         ELSE IF n.primary = R.primary
         THEN [n |-> n, ret |-> TRUE, rule |-> "allagree"]
         ELSE [n |-> n, ret |-> FALSE, rule |-> "mixed"]
    ELSE IF n.primary # L.primary
         THEN [n |-> Update(n), ret |-> TRUE, rule |-> "alldisagree"]
         ELSE IF n.primary = L.primary
         THEN [n |-> n, ret |-> TRUE, rule |-> "allagree"]
         ELSE [n |-> n, ret |-> FALSE, rule |-> "mixed"]

\* isLeader with <= in place of <: a tie does not make a leader.
isLeader_Strict(n, L, R) ==
    IF n.left = NULL
    THEN IF n.secondary <= R.secondary THEN FALSE ELSE TRUE
    ELSE IF n.right = NULL
    THEN IF n.secondary <= L.secondary THEN FALSE ELSE TRUE
    ELSE IF (n.secondary <= L.secondary) \/ (n.secondary <= R.secondary)
    THEN FALSE
    ELSE TRUE

isLeader(n, L, R) ==
    IF n.left = NULL
    THEN IF n.secondary < R.secondary THEN FALSE ELSE TRUE
    ELSE IF n.right = NULL
    THEN IF n.secondary < L.secondary THEN FALSE ELSE TRUE
    ELSE IF (n.secondary < L.secondary) \/ (n.secondary < R.secondary)
    THEN FALSE
    ELSE TRUE

Max(n, L, R) ==
    IF n.left = NULL THEN R.secondary
    ELSE IF n.right = NULL THEN L.secondary
    ELSE IF R.secondary > L.secondary THEN R.secondary
    ELSE L.secondary

\* CheckConditions with = in place of += for the leader.
CheckConditions_Assign(n, L, R) ==
    IF isLeader(n, L, R)
    THEN [n |-> [Update(n) EXCEPT !.secondary = Max(n, L, R) + M],
          ret |-> FALSE, rule |-> "leader"]
    ELSE [n |-> [n EXCEPT !.secondary = n.secondary + 1],
          ret |-> FALSE, rule |-> "follower"]

\* CheckConditions with -- in place of ++ for the node that is not leader.
CheckConditions_Decrement(n, L, R) ==
    IF isLeader(n, L, R)
    THEN [n |-> [Update(n) EXCEPT !.secondary = n.secondary + (Max(n, L, R) + M)],
          ret |-> FALSE, rule |-> "leader"]
    ELSE [n |-> [n EXCEPT !.secondary = n.secondary - 1],
          ret |-> FALSE, rule |-> "follower"]

\* CheckConditions without the margin M for the leader.
CheckConditions_NoMargin(n, L, R) ==
    IF isLeader(n, L, R)
    THEN [n |-> [Update(n) EXCEPT !.secondary = n.secondary + Max(n, L, R)],
          ret |-> FALSE, rule |-> "leader"]
    ELSE [n |-> [n EXCEPT !.secondary = n.secondary + 1],
          ret |-> FALSE, rule |-> "follower"]

\* CheckConditions with the Update of the node that is not leader left in.
CheckConditions_FollowerFlips(n, L, R) ==
    IF isLeader(n, L, R)
    THEN [n |-> [Update(n) EXCEPT !.secondary = n.secondary + (Max(n, L, R) + M)],
          ret |-> FALSE, rule |-> "leader"]
    ELSE [n |-> [Update(n) EXCEPT !.secondary = n.secondary + 1],
          ret |-> FALSE, rule |-> "follower"]

CheckConditions(n, L, R) ==
    IF isLeader(n, L, R)
    THEN [n |-> [Update(n) EXCEPT !.secondary = n.secondary + (Max(n, L, R) + M)],
          ret |-> FALSE, rule |-> "leader"]
    ELSE [n |-> [n EXCEPT !.secondary = n.secondary + 1],
          ret |-> FALSE, rule |-> "follower"]

\* The body of the loop of Stabilize for the selected node.
Activate(n, L, R) ==
    IF ~CheckUnequal(n, L, R).ret
    THEN CheckConditions(n, L, R)
    ELSE CheckUnequal(n, L, R)

\* The outcomes of activating node k of m.
Outcomes(m, k) ==
    { Activate(m[k], L, R) : L \in Deref(m, m[k].left), R \in Deref(m, m[k].right) }

\* System::Print walks the right pointers from member[0] to NULL: TRUE when the walk
\* stays inside the array.
RECURSIVE PrintWalk(_, _)
PrintWalk(m, p) ==
    IF p = NULL THEN TRUE
    ELSE IF p \notin DOMAIN m THEN FALSE
    ELSE PrintWalk(m, m[p].right)

\* Where main can be after a call of System::Print: it goes on, or, when the walk
\* left the array, it may also have crashed.
SystemPrint(m, next) == IF PrintWalk(m, 0) THEN {next} ELSE {next, "crashed"}

----------------------------------------------------------------------------
(* main *)

Init ==
    \E size \in Sizes, f \in 0 .. MaxFaults :
        /\ SYSTEM_SIZE = size
        /\ member = System(size)
        /\ node = 0
        /\ faults = f
        /\ i = 0
        /\ pc = IF size < 0 THEN "terminate" ELSE "faults"
        /\ rule = "none"
        /\ promoted = NULL
        /\ activated = <<0, 0>>

\* One turn of the fault loop: TransientFault, then System::Print.
TransientFault ==
    /\ pc = "faults"
    /\ i < faults
    /\ SYSTEM_SIZE > 0
    /\ \E k \in SelectNode(SYSTEM_SIZE) :
          member' = [member EXCEPT ![k] = Update(member[k])]
    /\ node' = 0
    /\ pc' \in SystemPrint(member', "faults")
    /\ i' = i + 1
    /\ UNCHANGED <<SYSTEM_SIZE, faults, rule>>

\* The fault loop on an empty system: rand() % 0 is undefined, the program
\* traps or writes outside the array.
TransientFaultEmpty ==
    /\ pc = "faults"
    /\ i < faults
    /\ SYSTEM_SIZE = 0
    /\ pc' \in {"faults", "crashed"}
    /\ i' = i + 1
    /\ UNCHANGED <<SYSTEM_SIZE, member, node, faults, rule>>

\* The fault loop ends and main calls Stabilize.
StartStabilize ==
    /\ pc = "faults"
    /\ ~(i < faults)
    /\ pc' = "stabilize"
    /\ UNCHANGED <<SYSTEM_SIZE, member, node, faults, i, rule>>

\* One turn of the loop of Stabilize.
StabilizeStep ==
    /\ pc = "stabilize"
    /\ ~LegalConfig(member, SYSTEM_SIZE)
    /\ \E k \in SelectNode(SYSTEM_SIZE) :
          \E out \in Outcomes(member, k) :
              /\ out.n.secondary <= MaxSecondary
              /\ member' = [member EXCEPT ![k] = out.n]
              /\ rule' = out.rule
              /\ node' = k
    /\ UNCHANGED <<SYSTEM_SIZE, faults, i, pc>>

\* The loop of Stabilize ends and Stabilize returns.
StabilizeExit ==
    /\ pc = "stabilize"
    /\ LegalConfig(member, SYSTEM_SIZE)
    /\ pc' = "legal"
    /\ UNCHANGED <<SYSTEM_SIZE, member, node, faults, i, rule>>

\* The last call of System::Print in main.
FinalPrint ==
    /\ pc = "legal"
    /\ pc' \in SystemPrint(member, "done")
    /\ node' = 0
    /\ UNCHANGED <<SYSTEM_SIZE, member, faults, i, rule>>

\* The history variables are not written.
Untracked == UNCHANGED <<promoted, activated>>

Next ==
    \/ TransientFault /\ Untracked
    \/ TransientFaultEmpty /\ Untracked
    \/ StartStabilize /\ Untracked
    \/ StabilizeStep /\ Untracked
    \/ StabilizeExit /\ Untracked
    \/ FinalPrint /\ Untracked

Spec == Init /\ [][Next]_vars

\* The count c after one more activation; M stands for M or more.
Counted(c) == IF c < M THEN c + 1 ELSE M

\* The history of a turn of the loop of Stabilize: a promotion may start to
\* be followed; while one is followed, the activations of its two
\* neighbours are counted.
Track ==
    IF promoted = NULL
    THEN \/ promoted' = NULL /\ activated' = activated
         \/ /\ rule' = "leader"
            /\ promoted' = node'
            /\ activated' = <<0, 0>>
    ELSE /\ promoted' = promoted
         /\ activated' = IF node' = promoted - 1
                            THEN <<Counted(activated[1]), activated[2]>>
                          ELSE IF node' = promoted + 1
                            THEN <<activated[1], Counted(activated[2])>>
                          ELSE activated

\* One turn of the loop of Stabilize, with its history.
StabilizeStepTracked == StabilizeStep /\ Track

NextTracked ==
    \/ TransientFault /\ Untracked
    \/ TransientFaultEmpty /\ Untracked
    \/ StartStabilize /\ Untracked
    \/ StabilizeStepTracked
    \/ StabilizeExit /\ Untracked
    \/ FinalPrint /\ Untracked

\* The program with the history of one promotion.
SpecTracked == Init /\ [][NextTracked]_vars

----------------------------------------------------------------------------
(* The vocabulary of the properties *)

\* The indices of the system.
Index == 0 .. (SYSTEM_SIZE - 1)

\* The existing neighbours of index k on the line.
Nbrs(k) == { j \in Index : j = k - 1 \/ j = k + 1 }

\* The legal configuration: every primary equals the primary of node 0.
AllEqualPrimary == \A k \in Index : member[k].primary = member[0].primary

\* The three cases of the rule for index k, in terms of the line.
AllDisagree(k) == \A j \in Nbrs(k) : member[j].primary # member[k].primary

AllAgree(k) == \A j \in Nbrs(k) : member[j].primary = member[k].primary

Mixed(k) == /\ \E j \in Nbrs(k) : member[j].primary = member[k].primary
            /\ \E j \in Nbrs(k) : member[j].primary # member[k].primary

\* Node k is leader: no existing neighbour has a greater secondary.
Leader(k) == \A j \in Nbrs(k) : member[k].secondary >= member[j].secondary

\* The greatest secondary among the two neighbours of an interior index k.
MaxNbr(k) == IF member[k - 1].secondary >= member[k + 1].secondary
             THEN member[k - 1].secondary
             ELSE member[k + 1].secondary

Flipped(p) == 1 - p

\* This step is an activation of the rule on index k.
Activation(k) == pc = "stabilize" /\ pc' = "stabilize" /\ node' = k

----------------------------------------------------------------------------
(* C1 *)

\* C1: for a system of at least one node, once Stabilize has returned the
\* configuration is legal; in a legal configuration the loop applies no rule
\* and selects no node but returns; and the loop returns only from a legal
\* configuration.
C1_StabilizeStopsAtLegal ==
    /\ []((SYSTEM_SIZE >= 1 /\ pc \in {"legal", "done"}) => AllEqualPrimary)
    /\ [][SYSTEM_SIZE >= 1 =>
            /\ (pc = "stabilize" /\ AllEqualPrimary) =>
                   (pc' = "legal" /\ member' = member /\ node' = node /\ rule' = rule)
            /\ (pc = "stabilize" /\ pc' # "stabilize") => AllEqualPrimary]_vars

\* C1: Stabilize has returned on a system that was faulty and was repaired
\* by the rule.
C1_Witness ==
    /\ pc = "legal"
    /\ SYSTEM_SIZE = MaxSize
    /\ i = faults /\ faults > 0
    /\ rule \in {"alldisagree", "leader"}
    /\ AllEqualPrimary

----------------------------------------------------------------------------
(* C3 *)

\* C3 as stated: an activation of a leader in the mixed case flips its primary
\* and sets its secondary to the greatest secondary of its neighbours plus M.
C3_LeaderSetsMaxPlusM ==
    [][\A k \in Index :
          (Activation(k) /\ Mixed(k) /\ Leader(k)) =>
              /\ member'[k].primary = Flipped(member[k].primary)
              /\ member'[k].secondary = MaxNbr(k) + M]_vars

\* C3 as amended: an activation of a leader in the mixed case flips its primary
\* and adds to its secondary the greatest secondary of its neighbours plus M.
C3_LeaderAddsMaxPlusM ==
    [][\A k \in Index :
          (Activation(k) /\ Mixed(k) /\ Leader(k)) =>
              /\ member'[k].primary = Flipped(member[k].primary)
              /\ member'[k].secondary = member[k].secondary + MaxNbr(k) + M
              /\ rule' = "leader"]_vars

\* C3: four nodes, primaries 0 0 1 1 and all secondaries 5, node 1 was
\* activated: its primary is 1 and its secondary 30.
C3_Witness ==
    /\ pc = "stabilize"
    /\ SYSTEM_SIZE = 4
    /\ node = 1 /\ rule = "leader"
    /\ member[0].primary = 0 /\ member[1].primary = 1
    /\ member[2].primary = 1 /\ member[3].primary = 1
    /\ member[1].secondary = 5 + 5 + M
    /\ \A k \in {0, 2, 3} : member[k].secondary = 5

----------------------------------------------------------------------------
(* C4 *)

\* C4: no step lowers the secondary of any node, and no secondary is ever
\* below 5.
C4_SecondaryMonotone ==
    /\ [](\A k \in Index : member[k].secondary >= 5)
    /\ [][\A k \in Index : member'[k].secondary >= member[k].secondary]_vars

\* C4: a node has been promoted and another has been incremented.
C4_Witness ==
    /\ pc = "stabilize"
    /\ \E j, k \in Index : /\ member[j].secondary = 5 + 5 + M
                           /\ member[k].secondary = 5 + 2

----------------------------------------------------------------------------
(* C5 *)

\* C5: an activation of a node that differs from every existing neighbour
\* flips its primary and keeps its secondary; an activation of a node that
\* equals every existing neighbour changes no node.
C5_AllDisagreeAllAgree ==
    [][\A k \in Index :
          /\ (Activation(k) /\ AllDisagree(k)) =>
                 /\ member'[k] = [member[k] EXCEPT !.primary = Flipped(member[k].primary)]
                 /\ rule' = "alldisagree"
          /\ (Activation(k) /\ AllAgree(k)) =>
                 /\ member' = member
                 /\ rule' = "allagree"]_vars

\* C5: three nodes, one fault made the primaries 0 1 0, node 1 was activated
\* and the primaries are 0 0 0.
C5_Witness ==
    /\ pc = "stabilize"
    /\ SYSTEM_SIZE = 3
    /\ i = 1
    /\ node = 1 /\ rule = "alldisagree"
    /\ \A k \in Index : member[k].primary = 0 /\ member[k].secondary = 5

----------------------------------------------------------------------------
(* C6 *)

----------------------------------------------------------------------------
(* C7 *)

\* C7: in a system of at least two nodes an activation of node 0 or of the
\* last node takes the all-agree or the all-disagree branch, and the
\* secondary of these two nodes is 5 in every state.
C7_EndpointsNeverMixed ==
    /\ [](SYSTEM_SIZE >= 2 =>
            member[0].secondary = 5 /\ member[SYSTEM_SIZE - 1].secondary = 5)
    /\ [][SYSTEM_SIZE >= 2 =>
            \A k \in {0, SYSTEM_SIZE - 1} :
                Activation(k) => rule' \in {"allagree", "alldisagree"}]_vars

\* C7: the last node was activated and flipped while an interior node had
\* been promoted.
C7_Witness ==
    /\ pc = "stabilize"
    /\ SYSTEM_SIZE >= 3
    /\ node = SYSTEM_SIZE - 1 /\ rule = "alldisagree"
    /\ \E k \in Index : member[k].secondary > 5

----------------------------------------------------------------------------
(* C8 *)

\* The case of the rule for index k, by the line.
CaseOf(k) == { c \in {"alldisagree", "allagree", "mixed"} :
                 \/ c = "alldisagree" /\ AllDisagree(k)
                 \/ c = "allagree" /\ AllAgree(k)
                 \/ c = "mixed" /\ Mixed(k) }

\* The case a branch of the rule belongs to.
CaseOfRule(r) == IF r \in {"leader", "follower"} THEN "mixed" ELSE r

\* C8: in a system of at least two nodes, for every index exactly one of the
\* three cases applies, the activation has one outcome only, and that
\* outcome is the one of the case.
C8_TotalDeterministic ==
    (SYSTEM_SIZE >= 2 /\ pc \in {"faults", "stabilize"}) =>
        \A k \in Index :
            LET outs == Outcomes(member, k)
                case == CaseOf(k)
            IN  /\ Cardinality(case) = 1
                /\ Cardinality(outs) = 1
                /\ \A out \in outs : CaseOfRule(out.rule) \in case

\* C8: the three cases occur at once: node 0 differs from its neighbour,
\* node 1 is mixed and the last node agrees with its neighbour.
C8_Witness ==
    /\ pc = "stabilize"
    /\ SYSTEM_SIZE >= 4
    /\ AllDisagree(0) /\ Mixed(1) /\ AllAgree(SYSTEM_SIZE - 1)
    /\ rule = "follower"

----------------------------------------------------------------------------
(* C9 *)

\* C9: a system of one node has no neighbour pointers, never leaves the
\* array, is legal in every state and never activates the rule.
C9_SingleNodeNoNeighbours ==
    SYSTEM_SIZE = 1 =>
        /\ member[0].left = NULL /\ member[0].right = NULL
        /\ pc # "crashed"
        /\ AllEqualPrimary
        /\ rule = "none"

----------------------------------------------------------------------------
(* C10 *)

\* C10: with a size below 1 the construction fails: the program has stopped
\* and no fault loop and no stabilization runs.
C10_InvalidSize ==
    SYSTEM_SIZE < 1 => pc = "terminate"

----------------------------------------------------------------------------
(* C11 *)

\* This step is a turn of the fault loop.
FaultStep == pc = "faults" /\ i' = i + 1

\* C11: a turn of the fault loop flips the primary of at most one node and
\* changes nothing else, so every secondary is 5 until Stabilize starts; an
\* activation changes no node but the selected one; every primary is 0 or 1
\* and changes only in a turn of the fault loop or in an activation of that
\* node that is all-disagree or mixed with the node leader.
C11_Frame ==
    /\ [](\A k \in Index : member[k].primary \in {0, 1})
    /\ [](pc = "faults" => \A k \in Index : member[k].secondary = 5)
    /\ [][/\ FaultStep =>
               /\ Cardinality({k \in Index : member'[k] # member[k]}) <= 1
               /\ \A k \in Index :
                     member'[k] # member[k] =>
                         member'[k] = [member[k] EXCEPT !.primary = Flipped(member[k].primary)]
          /\ \A k \in Index :
                Activation(k) => \A j \in Index \ {k} : member'[j] = member[j]
          /\ \A k \in Index :
                member'[k].primary # member[k].primary =>
                    \/ FaultStep
                    \/ /\ Activation(k)
                       /\ AllDisagree(k) \/ (Mixed(k) /\ Leader(k))]_vars

\* C11: two faults hit two nodes, then one activation flipped the selected
\* node only and raised its secondary only.
C11_Witness ==
    /\ pc = "stabilize"
    /\ SYSTEM_SIZE = 4
    /\ i = 2
    /\ node = 2 /\ rule = "leader"
    /\ member[0].primary = 0 /\ member[1].primary = 1
    /\ member[2].primary = 1 /\ member[3].primary = 0
    /\ \A k \in Index \ {2} : member[k].secondary = 5

----------------------------------------------------------------------------
(* C12 *)

\* The array m with the secondary of node k set to v.
WithSecondary(m, k, v) == [m EXCEPT ![k].secondary = v]

\* C12: LegalConfig is true exactly when every primary equals the primary of
\* node 0, which is when no two adjacent nodes differ in primary, and its
\* value is the same whatever secondary any node holds.
C12_LegalConfigMeaning ==
    /\ LegalConfig(member, SYSTEM_SIZE) <=> AllEqualPrimary
    /\ LegalConfig(member, SYSTEM_SIZE) <=>
           (\A k \in Index : \A j \in Nbrs(k) : member[j].primary = member[k].primary)
    /\ \A k \in Index : \A v \in {0, 5, MaxSecondary} :
           LegalConfig(WithSecondary(member, k, v), SYSTEM_SIZE)
               <=> LegalConfig(member, SYSTEM_SIZE)

\* C12: Stabilize has returned on a legal configuration whose secondaries
\* differ.
C12_Witness ==
    /\ pc = "legal"
    /\ SYSTEM_SIZE >= 3
    /\ AllEqualPrimary
    /\ \E j, k \in Index : member[j].secondary # member[k].secondary

----------------------------------------------------------------------------
(* C13 *)

\* C13: after an activation of a leader in the mixed case its secondary
\* exceeds the secondary of each neighbour by at least M.
C13_PromotedExceedsByM ==
    [][\A k \in Index :
          (Activation(k) /\ Mixed(k) /\ Leader(k)) =>
              \A j \in Nbrs(k) :
                  /\ member'[k].secondary > member'[j].secondary
                  /\ member'[k].secondary - member'[j].secondary >= M]_vars

\* C13: a node was promoted a second time, from 30, between neighbours
\* that hold 5.
C13_Witness ==
    /\ pc = "stabilize"
    /\ rule = "leader"
    /\ member[node].secondary = (5 + 5 + M) + 5 + M
    /\ \A j \in Nbrs(node) : member[j].secondary = 5

----------------------------------------------------------------------------
(* C14 *)

\* C14: an activation of a node in the mixed case that is not leader keeps
\* its primary and adds 1 to its secondary.
C14_FollowerIncrements ==
    [][\A k \in Index :
          (Activation(k) /\ Mixed(k) /\ ~Leader(k)) =>
              /\ member'[k] = [member[k] EXCEPT !.secondary = member[k].secondary + 1]
              /\ rule' = "follower"]_vars

\* C14: a node next to a promoted node was activated and went from 5 to 6.
C14_Witness ==
    /\ pc = "stabilize"
    /\ rule = "follower"
    /\ member[node].secondary = 6
    /\ \E j \in Nbrs(node) : member[j].secondary = 5 + 5 + M
    /\ Mixed(node)

----------------------------------------------------------------------------
(* C16 *)

\* Node n, whose neighbours read as L and R, activated again and again
\* while L and R stay as they are, is not leader and is only incremented for
\* exactly `left` activations, is leader then, and is flipped by the
\* activation after that.
RECURSIVE CatchesUp(_, _, _, _)
CatchesUp(n, L, R, left) ==
    \A out \in {Activate(n, L, R)} :
        IF n.secondary >= L.secondary /\ n.secondary >= R.secondary
        THEN /\ left = 0
             /\ out.rule = "leader"
             /\ out.n.primary = Flipped(n.primary)
        ELSE /\ left > 0
             /\ out.rule = "follower"
             /\ out.n.primary = n.primary
             /\ out.n.secondary = n.secondary + 1
             /\ CatchesUp(out.n, L, R, left - 1)

\* C16: a node in the mixed case that is not leader and is activated
\* repeatedly while its neighbours stay as they are becomes leader after as
\* many increments as the greatest secondary of its neighbours exceeds its
\* own, and the next activation flips its primary.
C16_FollowerCatchesUp ==
    [](\A k \in Index :
          (Mixed(k) /\ ~Leader(k)) =>
              \A L \in Deref(member, member[k].left), R \in Deref(member, member[k].right) :
                  CatchesUp(member[k], L, R, MaxNbr(k) - member[k].secondary))

\* C16: a node in the mixed case that was 25 below its promoted neighbour
\* has been incremented up to it and is leader.
C16_Witness ==
    /\ pc = "stabilize"
    /\ rule = "follower"
    /\ Mixed(node)
    /\ member[node].secondary = 5 + 5 + M
    /\ MaxNbr(node) = member[node].secondary
    /\ \E j \in Nbrs(node) : member[j].secondary = 5

----------------------------------------------------------------------------
(* C17 *)

\* The number of adjacent pairs of m with different primaries.
Boundaries(m) ==
    Cardinality({ k \in Index : k + 1 \in Index /\ m[k].primary # m[k + 1].primary })

\* C17: an activation leaves the number of adjacent pairs with different
\* primaries as it is in the all-agree branch and in both mixed branches,
\* lowers it by 1 when a node at an end flips in the all-disagree branch and
\* by 2 when an interior node does; only a turn of the fault loop raises it.
C17_BoundariesNeverGrow ==
    [][/\ \A k \in Index :
             Activation(k) =>
                 /\ rule' \in {"allagree", "follower", "leader"} =>
                        Boundaries(member') = Boundaries(member)
                 /\ (rule' = "alldisagree" /\ Cardinality(Nbrs(k)) = 1) =>
                        Boundaries(member') = Boundaries(member) - 1
                 /\ (rule' = "alldisagree" /\ Cardinality(Nbrs(k)) = 2) =>
                        Boundaries(member') = Boundaries(member) - 2
       /\ Boundaries(member') > Boundaries(member) => FaultStep]_vars

\* C17: two faults made two pairs differ and the flip of an interior node
\* removed both.
C17_Witness ==
    /\ pc = "stabilize"
    /\ SYSTEM_SIZE = 4
    /\ i = 2
    /\ node \in {1, 2} /\ rule = "alldisagree"
    /\ Boundaries(member) = 0

----------------------------------------------------------------------------
(* C18 *)

\* Activating node k of m is all-agree and leaves the node as it is.
NoOpAt(m, k) ==
    \A out \in Outcomes(m, k) : out.rule = "allagree" /\ out.n = m[k]

\* C18: in a configuration where all primaries are equal, the activation of
\* any index is all-agree and changes no primary and no secondary, whatever
\* the secondaries are.
C18_LegalIsFixedPoint ==
    AllEqualPrimary =>
        \A k \in Index :
            /\ NoOpAt(member, k)
            /\ \A j \in Index : \A v \in {0, 5, MaxSecondary} :
                   NoOpAt(WithSecondary(member, j, v), k)

\* The same for the systems of at least two nodes.
C18_LegalIsFixedPointFromTwo ==
    SYSTEM_SIZE >= 2 => C18_LegalIsFixedPoint

----------------------------------------------------------------------------
(* C19 *)

\* C19: in a configuration of at least two nodes that is not legal, the
\* activation of some index changes that node.
C19_NoSilentIllegal ==
    (SYSTEM_SIZE >= 2 /\ ~AllEqualPrimary) =>
        \E k \in Index : \A out \in Outcomes(member, k) : out.n # member[k]

\* C19: Stabilize runs on primaries 0 0 1 1: both ends agree with their
\* neighbour and only the two mixed nodes can change the state.
C19_Witness ==
    /\ pc = "stabilize"
    /\ SYSTEM_SIZE = 4
    /\ ~AllEqualPrimary
    /\ AllAgree(0) /\ Mixed(1) /\ Mixed(2) /\ AllAgree(3)
    /\ rule # "none"

----------------------------------------------------------------------------
(* C15 *)

\* A promoted node is followed and each of its neighbours has been activated
\* fewer than M times since the promotion.
Within == promoted # NULL /\ activated[1] < M /\ activated[2] < M

\* C15: while each neighbour of a promoted node has been activated fewer
\* than M times since the promotion, the promoted node is leader, and an
\* activation of one of its neighbours in the mixed case takes the branch of
\* the node that is not leader and does not flip it.
C15_LeaderPersists ==
    /\ [](Within => Leader(promoted))
    /\ [][\A j \in Index :
             (Within /\ Within' /\ j \in Nbrs(promoted) /\ Activation(j) /\ Mixed(j)) =>
                 /\ rule' = "follower"
                 /\ member'[j].primary = member[j].primary]_vars

\* C15: since the promotion both neighbours have been activated M - 1 times,
\* the right one always as a mixed node that is not leader, and the promoted
\* node is still leader.
C15_Witness ==
    /\ pc = "stabilize"
    /\ promoted # NULL
    /\ activated = <<M - 1, M - 1>>
    /\ promoted + 1 \in Index
    /\ member[promoted + 1].secondary = 5 + (M - 1)
    /\ Leader(promoted)

====
